---- MODULE Spec2Model ----
(***************************************************************************)
(* Execution Monitoring & Control Client of the ROMA web console.          *)
(*                                                                         *)
(*   webui/src/lib/api.ts   ApiClient: axios transport with a response     *)
(*                          interceptor, the resource methods and          *)
(*                          pollExecutionStatus                            *)
(*   webui/src/components/QuickTaskForm.tsx   the create-execution form    *)
(*   webui/src/app/page.tsx                   Home: the health monitor     *)
(*   webui/src/components/Dashboard.tsx       Dashboard: health on mount,  *)
(*                          the recent-executions query, the stats fold    *)
(*                                                                         *)
(* The browser event loop is modelled as interleaved handlers: a handler   *)
(* (a promise continuation chain, a timer callback, a user call) runs to   *)
(* completion as one action.  The backend and the clock are the            *)
(* environment: a request that is in flight may be answered at any time,   *)
(* with any outcome, and a timer fires at some moment at or after its due   *)
(* time.                                                                   *)
(***************************************************************************)
EXTENDS Integers, Sequences, FiniteSets, TLC

VARIABLES
    now,        \* event-loop clock, in ms
    requests,   \* backend calls issued so far
    failedCalls,\* backend calls that ended in failure (non-2xx or no response)
    toasts,     \* react-hot-toast: what has been shown
    observed,   \* the execution ids the caller polls
    pollers,    \* per execution id: the closure state of pollExecutionStatus
    stopCalls,  \* per execution id: invocations of the returned stop function
    calls,      \* per method: direct calls of it that are not yet settled
    lastResult, \* how the last direct call settled for its caller
    settling,   \* rejections the interceptor has returned and the caller's
                \* await has not yet thrown
    form,       \* QuickTaskForm
    page,       \* Home: health state and the interval of its effect
    dash,       \* Dashboard: health state and its mount effect
    query,      \* Dashboard: the 'recent-executions' query
    render      \* Dashboard: the stats computation of one render

pollVars == <<observed, pollers, stopCalls>>
apiVars == <<calls, lastResult, settling>>
uiVars == <<form, page, dash>>
netVars == <<requests, failedCalls, toasts>>
dashVars == <<query, render>>

vars == <<now, requests, failedCalls, toasts, observed, pollers, stopCalls,
          calls, lastResult, settling, form, page, dash, query, render>>

----------------------------------------------------------------------------
(* Bounds of the model *)

MaxRequests == 4
MaxTicks == 4
TickMs == 1000
MaxStops == 2
MaxCalls == 2
MaxExecutions == 3
MaxCancels == 1
MaxHealthTicks == 4
HealthTickMs == 15000

----------------------------------------------------------------------------
(* Backend and caller inputs *)

ExecutionIds == {"e1", "e2"}

\* StatusPolling.status is a string: the five statuses of the backend and
\* one it does not document.
Statuses ==
    {"pending", "running", "completed", "failed", "cancelled", "paused"}

DefaultInterval == 2000

Intervals == {DefaultInterval, TickMs}

\* An axios error: with a response (a non-2xx status and possibly a detail
\* in its body) or without one (network failure, timeout).
HttpErrors ==
    [response : {TRUE}, status : {400, 401, 403, 404, 499, 500, 503},
     detail : {"", "Invalid request"}, message : {"Request failed"}]

NetworkErrors ==
    [response : {FALSE}, status : {0}, detail : {""},
     message : {"Network Error", ""}]

Errors == HttpErrors \cup NetworkErrors

----------------------------------------------------------------------------
(* Transport Adapter: the response interceptor *)

\* error.response?.data?.detail || error.message || 'An error occurred'
ErrorMessage(error) ==
    IF error.response /\ error.detail # "" THEN error.detail
    ELSE IF error.message # "" THEN error.message
    ELSE "An error occurred"

\* Variant: the server-error test is status > 500.
handleErrorAbove500(error) ==
    IF error.response /\ error.status = 401
        THEN [class |-> "AuthRequired", text |-> "Authentication required"]
    ELSE IF error.response /\ error.status = 403
        THEN [class |-> "Forbidden", text |-> "Access forbidden"]
    ELSE IF error.response /\ error.status = 404
        THEN [class |-> "NotFound", text |-> "Resource not found"]
    ELSE IF error.response /\ error.status > 500
        THEN [class |-> "ServerError",
              text |-> "Server error. Please try again later."]
    ELSE [class |-> "RequestFailed", text |-> ErrorMessage(error)]

\* The branch handleError takes and the text it hands to toast.error.
\* Without a response, error.response?.status is undefined and every
\* comparison is false.
handleError(error) ==
    IF error.response /\ error.status = 401
        THEN [class |-> "AuthRequired", text |-> "Authentication required"]
    ELSE IF error.response /\ error.status = 403
        THEN [class |-> "Forbidden", text |-> "Access forbidden"]
    ELSE IF error.response /\ error.status = 404
        THEN [class |-> "NotFound", text |-> "Resource not found"]
    ELSE IF error.response /\ error.status >= 500
        THEN [class |-> "ServerError",
              text |-> "Server error. Please try again later."]
    ELSE [class |-> "RequestFailed", text |-> ErrorMessage(error)]

NoToasts == [errors |-> 0, successes |-> 0, last |-> "", lastClass |-> ""]

toastError(t, shown) ==
    [t EXCEPT !.errors = @ + 1, !.last = shown.text, !.lastClass = shown.class]

toastSuccess(t, text) ==
    [t EXCEPT !.successes = @ + 1, !.last = text, !.lastClass = "Success"]

\* Variant: an error without a response is passed on without a toast.
interceptRejectedSilentWithoutResponse(t, error) ==
    IF error.response THEN toastError(t, handleError(error)) ELSE t

\* The rejected branch of the response interceptor: handleError(error), whose
\* returned Promise.reject(error) then reaches the caller.
interceptRejected(t, error) == toastError(t, handleError(error))

----------------------------------------------------------------------------
(* Status Poller: pollExecutionStatus *)

\* Variant: 'cancelled' is left out of the terminal test.
TerminalStatusesWithoutCancelled == {"completed", "failed"}

TerminalStatuses == {"completed", "failed", "cancelled"}

NoPoller ==
    [started |-> FALSE, interval |-> 0, issued |-> 0, issuedAt |-> 0,
     inflight |-> {}, timers |-> <<>>, delivered |-> <<>>, rejected |-> 0,
     lastOutcome |-> "none", threw |-> FALSE]

\* Variant: the next poll is scheduled when the fetch is issued, not when it
\* has been answered.
pollScheduledAtIssue(p, t) ==
    [p EXCEPT !.issued = @ + 1, !.issuedAt = t,
              !.inflight = @ \cup {p.issued + 1},
              !.timers = Append(@, t + p.interval)]

\* const status = await this.getExecutionStatus(executionId): the request
\* leaves at once, the closure suspends until it is answered.
poll(p, t) ==
    [p EXCEPT !.issued = @ + 1, !.issuedAt = t,
              !.inflight = @ \cup {p.issued + 1}]

\* setTimeout(poll, interval)
scheduleNext(p, t) == [p EXCEPT !.timers = Append(@, t + p.interval)]

\* Variant: the terminal test comes before onUpdate, so a terminal status is
\* not delivered.
pollResolvedTestFirst(p, k, status, t) ==
    IF status \in TerminalStatuses
        THEN [p EXCEPT !.inflight = @ \ {k}, !.lastOutcome = "resolved"]
        ELSE scheduleNext(
                 [p EXCEPT !.inflight = @ \ {k},
                           !.delivered = Append(@, [fetch |-> k, status |-> status]),
                           !.lastOutcome = "resolved"], t)

\* The try branch after the await: onUpdate(status), then the terminal test.
\* The sink is the caller's; it records the snapshot and returns.
pollResolved(p, k, status, t) ==
    LET q == [p EXCEPT !.inflight = @ \ {k},
                       !.delivered = Append(@, [fetch |-> k, status |-> status]),
                       !.lastOutcome = "resolved"]
    IN  IF status \in TerminalStatuses THEN q ELSE scheduleNext(q, t)

\* The catch branch: console.error(...) and nothing else.
pollRejected(p, k, t) ==
    [p EXCEPT !.inflight = @ \ {k}, !.rejected = @ + 1,
              !.lastOutcome = "rejected"]

\* Variant: the first poll is put behind a timer.
pollExecutionStatusDelayed(p, interval, t) ==
    scheduleNext([p EXCEPT !.started = TRUE, !.interval = interval], t)

\* pollExecutionStatus(executionId, onUpdate, interval): poll() is called
\* directly, then the stop function is returned.
pollExecutionStatus(p, interval, t) ==
    poll([p EXCEPT !.started = TRUE, !.interval = interval], t)

\* Variant: the stop function clears the pending timer handle and throws when
\* there is none.
stopClearsOrThrows(p) ==
    IF p.timers = <<>> THEN [p EXCEPT !.threw = TRUE]
    ELSE [p EXCEPT !.timers = <<>>]

\* The returned stop function: its body is empty.
stop(p) == p

RemoveAt(s, i) == [j \in 1 .. (Len(s) - 1) |-> IF j < i THEN s[j] ELSE s[j + 1]]

----------------------------------------------------------------------------
(* Resource Client: the resource methods of ApiClient *)

Methods ==
    {"getHealth", "createExecution", "getExecutions", "getExecution",
     "getExecutionStatus", "getExecutionMetrics", "getExecutionData",
     "deleteExecution", "getCheckpoints", "getCheckpoint", "restoreCheckpoint",
     "getTaskTraces", "getLMTraces", "updateConfig", "getProfiles",
     "getProfile"}

\* The toast.success a method calls after its awaited request ("" when its
\* body has none).
SuccessText(method) ==
    CASE method = "createExecution" -> "Execution started successfully"
      [] method = "deleteExecution" -> "Execution deleted successfully"
      [] method = "restoreCheckpoint" -> "Checkpoint restored successfully"
      [] method = "updateConfig" -> "Configuration updated successfully"
      [] OTHER -> ""

\* The rest of a method's body once its request has resolved.
methodResolved(t, method) ==
    IF SuccessText(method) # "" THEN toastSuccess(t, SuccessText(method)) ELSE t

\* Variant: toast.success is called before the awaited request.
methodRejectedToastFirst(t, method, error) ==
    IF SuccessText(method) # ""
        THEN interceptRejected(toastSuccess(t, SuccessText(method)), error)
        ELSE interceptRejected(t, error)

\* A method whose request rejects: the interceptor has run, the await throws
\* and the method's own statements after it are skipped.
methodRejected(t, method, error) == interceptRejected(t, error)

NoResult == [method |-> "", outcome |-> "none", error |-> "none"]

\* The read operations: the methods whose request is a GET.
ReadMethods ==
    {"getHealth", "getExecutions", "getExecution", "getExecutionStatus",
     "getExecutionMetrics", "getExecutionData", "getCheckpoints",
     "getCheckpoint", "getTaskTraces", "getLMTraces", "getProfiles",
     "getProfile"}

\* Variant: the method catches the rejection and returns a default.
awaitRejectedSwallowed(method, error) ==
    [method |-> method, outcome |-> "resolved", error |-> "none"]

\* What the caller of method gets when the awaited request has rejected with
\* error: the method has no try/catch, so its promise rejects with it.
awaitRejected(method, error) ==
    [method |-> method, outcome |-> "rejected", error |-> error]

NoCalls == [method \in Methods |-> 0]

----------------------------------------------------------------------------
(* QuickTaskForm: onFormSubmit *)

NoForm ==
    [isSubmitting |-> FALSE, inflight |-> 0, filled |-> TRUE, resets |-> 0,
     onSubmitCalls |-> 0, caught |-> 0, log |-> <<>>]

\* Variant: the handler does not call setIsSubmitting(true).
onFormSubmitNoFlag(f) == [f EXCEPT !.inflight = @ + 1, !.log = <<>>]

\* setIsSubmitting(true); await apiClient.createExecution(data)
onFormSubmit(f) ==
    [f EXCEPT !.isSubmitting = TRUE, !.inflight = @ + 1, !.log = <<>>]

\* reset(); onSubmit(); finally setIsSubmitting(false)
formResolved(f) ==
    [f EXCEPT !.inflight = @ - 1, !.filled = FALSE, !.resets = @ + 1,
              !.onSubmitCalls = @ + 1, !.isSubmitting = FALSE,
              !.log = <<"reset", "onSubmit">>]

\* Variant: reset() and onSubmit() sit in the finally block.
formRejectedCloses(f) ==
    [f EXCEPT !.inflight = @ - 1, !.caught = @ + 1, !.isSubmitting = FALSE,
              !.filled = FALSE, !.resets = @ + 1, !.onSubmitCalls = @ + 1]

\* catch: console.error(...); finally setIsSubmitting(false)
formRejected(f) ==
    [f EXCEPT !.inflight = @ - 1, !.caught = @ + 1, !.isSubmitting = FALSE]

\* The Cancel button: reset(); onSubmit()
formCancel(f) ==
    [f EXCEPT !.filled = FALSE, !.resets = @ + 1, !.onSubmitCalls = @ + 1]

----------------------------------------------------------------------------
(* Health: the effect of Home (page.tsx) and of Dashboard *)

HealthStatuses == {"healthy", "unhealthy"}

HealthInterval == 30000

\* useState<Health | null>(null)
NoSnapshot == [fetch |-> 0, status |-> "null"]

\* timeout of the axios instance (api.ts:26): a request that has no response
\* this long after it was sent is aborted and rejects.
RequestTimeout == 30000

\* sentAt[k]: when health fetch k was sent.
NoHealth ==
    [mounted |-> FALSE, cleaned |-> FALSE, health |-> NoSnapshot, issued |-> 0,
     inflight |-> {}, sentAt |-> <<>>, timer |-> FALSE, due |-> 0,
     caught |-> 0]

\* fetchHealth up to its await, at time t
fetchHealth(h, t) ==
    [h EXCEPT !.issued = @ + 1, !.inflight = @ \cup {h.issued + 1},
              !.sentAt = Append(@, t)]

\* Whether fetch k can still get its response at time t.
withinTimeout(h, k, t) == t < h.sentAt[k] + RequestTimeout

\* setHealth(healthData)
healthResolved(h, k, status) ==
    [h EXCEPT !.inflight = @ \ {k}, !.health = [fetch |-> k, status |-> status]]

\* Variant: the catch resets the state with setHealth(null).
healthRejectedClears(h, k) ==
    [h EXCEPT !.inflight = @ \ {k}, !.caught = @ + 1, !.health = NoSnapshot]

\* Variant: the catch gives up and clears the interval.
healthRejectedStops(h, k) ==
    [h EXCEPT !.inflight = @ \ {k}, !.caught = @ + 1, !.timer = FALSE]

\* catch: console.error(...)
healthRejected(h, k) == [h EXCEPT !.inflight = @ \ {k}, !.caught = @ + 1]

\* Variant: the effect only sets the interval, without the direct call.
homeEffectIntervalOnly(h, t) ==
    [h EXCEPT !.mounted = TRUE, !.cleaned = FALSE, !.timer = TRUE,
              !.due = t + HealthInterval]

\* Home's effect: fetchHealth(); setInterval(fetchHealth, 30000)
homeEffect(h, t) ==
    [fetchHealth(h, t) EXCEPT !.mounted = TRUE, !.cleaned = FALSE, !.timer = TRUE,
                           !.due = t + HealthInterval]

\* When a repeating timer that was due at due and runs at t is due next: the
\* platform either counts the interval from this run, or keeps the rhythm
\* of the due times and takes the first of them after t.
NextRuns(due, t) ==
    {t + HealthInterval,
     t + HealthInterval - ((t - due) % HealthInterval)}

\* The interval set by setInterval(fetchHealth, 30000) fires: fetchHealth
\* runs and the timer is due again at next.
intervalFires(h, t, next) == fetchHealth([h EXCEPT !.due = next], t)

\* Variant: the cleanup does not clear the interval.
homeCleanupKeepsInterval(h) == [h EXCEPT !.cleaned = TRUE]

\* Home's cleanup: clearInterval(interval)
homeCleanup(h) == [h EXCEPT !.cleaned = TRUE, !.timer = FALSE]

\* Dashboard's effect: fetchHealth() once
dashboardEffect(h, t) == [fetchHealth(h, t) EXCEPT !.mounted = TRUE]

----------------------------------------------------------------------------
(* Aggregator: the stats reduce of Dashboard *)

\* Execution.status is a string, like StatusPolling.status.
Executions == [status : Statuses]

ExecutionLists ==
    UNION {[1 .. n -> Executions] : n \in 0 .. MaxExecutions}

\* executionsData: undefined until the query has data, then an ExecutionList.
NoData == [loaded |-> FALSE, executions |-> <<>>]

ZeroStats ==
    [totalExecutions |-> 0, activeExecutions |-> 0, completedExecutions |-> 0,
     failedExecutions |-> 0, averageExecutionTime |-> 0, totalTokensUsed |-> 0,
     totalCost |-> 0]

\* Variant: the total is counted only in the three status branches.
reducerTotalInBranches(acc, execution) ==
    IF execution.status = "running"
        THEN [acc EXCEPT !.totalExecutions = @ + 1, !.activeExecutions = @ + 1]
    ELSE IF execution.status = "completed"
        THEN [acc EXCEPT !.totalExecutions = @ + 1,
                         !.completedExecutions = @ + 1]
    ELSE IF execution.status = "failed"
        THEN [acc EXCEPT !.totalExecutions = @ + 1, !.failedExecutions = @ + 1]
    ELSE acc

\* Variant: a pending record is counted as active.
reducerPendingActive(acc, execution) ==
    LET counted == [acc EXCEPT !.totalExecutions = @ + 1]
    IN  IF execution.status \in {"running", "pending"}
            THEN [counted EXCEPT !.activeExecutions = @ + 1]
        ELSE IF execution.status = "completed"
            THEN [counted EXCEPT !.completedExecutions = @ + 1]
        ELSE IF execution.status = "failed"
            THEN [counted EXCEPT !.failedExecutions = @ + 1]
        ELSE counted

\* Variant: a running record is counted as active only while no failed
\* record has been seen.
reducerActiveUntilFailed(acc, execution) ==
    LET counted == [acc EXCEPT !.totalExecutions = @ + 1]
    IN  IF execution.status = "running" /\ acc.failedExecutions = 0
            THEN [counted EXCEPT !.activeExecutions = @ + 1]
        ELSE IF execution.status = "completed"
            THEN [counted EXCEPT !.completedExecutions = @ + 1]
        ELSE IF execution.status = "failed"
            THEN [counted EXCEPT !.failedExecutions = @ + 1]
        ELSE counted

\* Variant: the last branch has no test, so every other status counts as
\* failed.
reducerElseFailed(acc, execution) ==
    LET counted == [acc EXCEPT !.totalExecutions = @ + 1]
    IN  IF execution.status = "running"
            THEN [counted EXCEPT !.activeExecutions = @ + 1]
        ELSE IF execution.status = "completed"
            THEN [counted EXCEPT !.completedExecutions = @ + 1]
        ELSE [counted EXCEPT !.failedExecutions = @ + 1]

\* The reduce callback: acc.totalExecutions++, then one of the three
\* status counters or none.
reducer(acc, execution) ==
    LET counted == [acc EXCEPT !.totalExecutions = @ + 1]
    IN  IF execution.status = "running"
            THEN [counted EXCEPT !.activeExecutions = @ + 1]
        ELSE IF execution.status = "completed"
            THEN [counted EXCEPT !.completedExecutions = @ + 1]
        ELSE IF execution.status = "failed"
            THEN [counted EXCEPT !.failedExecutions = @ + 1]
        ELSE counted

\* Array.prototype.reduce with an initial value: the callback applied to
\* the elements from first to last.
RECURSIVE reduce(_, _)
reduce(executions, acc) ==
    IF executions = <<>> THEN acc
    ELSE reduce(Tail(executions), reducer(acc, Head(executions)))

\* A render that has not started its stats computation.
NoRender ==
    [executionsData |-> NoData, executions |-> <<>>, pos |-> 0,
     acc |-> ZeroStats, done |-> FALSE, stats |-> ZeroStats]

\* Dashboard renders with executionsData = data: the reduce starts from the
\* initial accumulator, over the list it was given.
startRender(data) ==
    [NoRender EXCEPT !.executionsData = data, !.executions = data.executions]

\* One call of the reduce callback, on the next element.
reduceStep(r) ==
    [r EXCEPT !.pos = @ + 1, !.acc = reducer(@, r.executions[r.pos + 1])]

\* executionsData?.executions.reduce(...) || { zeros }: the accumulator when
\* there was a list, the literal of zeros when executionsData is undefined.
finishRender(r) ==
    [r EXCEPT !.done = TRUE,
              !.stats = IF r.executionsData.loaded THEN r.acc ELSE ZeroStats]

----------------------------------------------------------------------------
(* Dashboard: the 'recent-executions' query *)

\* defaultOptions.queries.retry of the query client (page.tsx:15)
QueryRetry == 1

\* refetchInterval of the query (Dashboard.tsx:53)
RefetchInterval == 30000

\* The library's default retryDelay: min(1000 * 2^failureCount, 30000)
RetryDelay(failureCount) ==
    IF 1000 * (2 ^ failureCount) < 30000 THEN 1000 * (2 ^ failureCount)
    ELSE 30000

\* What getExecutions(0, 10) resolves with.
QueryResults == {<<>>, <<[status |-> "running"]>>}

\* The query before Dashboard mounts.  fetching: a fetch (with its retries)
\* is under way; inflight: a request of it is unanswered; retryDue: when
\* the pending retry is due, -1 when none; due: when the refetch interval
\* is due next; retries: requests issued by the retry timer.
NoQuery ==
    [mounted |-> FALSE, fetching |-> FALSE, inflight |-> FALSE, issued |-> 0,
     failureCount |-> 0, retryDue |-> -1, due |-> -1, retries |-> 0,
     status |-> "pending", data |-> NoData]

\* A fetch starts: queryFn is called, apiClient.getExecutions(0, 10).
queryFetch(q) ==
    [q EXCEPT !.fetching = TRUE, !.inflight = TRUE, !.issued = @ + 1,
              !.failureCount = 0]

\* Dashboard mounts: the query has no data and fetches, and the refetch
\* interval is set.
queryMount(q, t) ==
    queryFetch([q EXCEPT !.mounted = TRUE, !.due = t + RefetchInterval])

\* queryFn resolved: the list becomes executionsData.
queryResolved(q, executions) ==
    [q EXCEPT !.fetching = FALSE, !.inflight = FALSE, !.failureCount = 0,
              !.status = "success",
              !.data = [loaded |-> TRUE, executions |-> executions]]

\* queryFn rejected: while failureCount < retry the fetch waits retryDelay
\* and calls queryFn again; after that the query is in error.
queryRejected(q, t) ==
    IF q.failureCount < QueryRetry
    THEN [q EXCEPT !.inflight = FALSE, !.failureCount = @ + 1,
                   !.retryDue = t + RetryDelay(q.failureCount)]
    ELSE [q EXCEPT !.inflight = FALSE, !.failureCount = @ + 1,
                   !.fetching = FALSE, !.status = "error"]

\* The retry timer fires: queryFn is called again.
queryRetryFires(q) ==
    [q EXCEPT !.inflight = TRUE, !.issued = @ + 1, !.retries = @ + 1,
              !.retryDue = -1]

\* The refetch interval fires: a fetch starts unless one is under way.
queryIntervalFires(q, t) ==
    LET next == [q EXCEPT !.due = t + RefetchInterval]
    IN  IF q.fetching THEN next ELSE queryFetch(next)

----------------------------------------------------------------------------
(* Actions *)

Init ==
    /\ now = 0
    /\ requests = 0
    /\ failedCalls = 0
    /\ toasts = NoToasts
    /\ observed = {"e1"}
    /\ pollers = [e \in ExecutionIds |-> NoPoller]
    /\ stopCalls = [e \in ExecutionIds |-> 0]
    /\ calls = NoCalls
    /\ lastResult = NoResult
    /\ settling = {}
    /\ form = NoForm
    /\ page = NoHealth
    /\ dash = NoHealth
    /\ query = NoQuery
    /\ render = NoRender

\* Time passes.
Tick ==
    /\ now + TickMs <= MaxTicks * TickMs
    /\ now' = now + TickMs
    /\ UNCHANGED <<netVars, pollVars, apiVars, uiVars, dashVars>>

\* A caller starts polling execution e.
StartPolling(e) ==
    /\ e \in observed
    /\ ~pollers[e].started
    /\ requests < MaxRequests
    /\ \E interval \in Intervals :
          pollers' = [pollers EXCEPT ![e] = pollExecutionStatus(@, interval, now)]
    /\ requests' = requests + 1
    /\ UNCHANGED <<now, failedCalls, toasts, observed, stopCalls, apiVars, uiVars, dashVars>>

\* The backend answers status fetch k of poller e with a 2xx response.
StatusResolved(e) ==
    /\ \E k \in pollers[e].inflight, status \in Statuses :
          pollers' = [pollers EXCEPT ![e] = pollResolved(@, k, status, now)]
    /\ toasts' = methodResolved(toasts, "getExecutionStatus")
    /\ UNCHANGED <<now, requests, failedCalls, observed, stopCalls, apiVars, uiVars, dashVars>>

\* Status fetch k of poller e fails: the interceptor runs, then the catch.
StatusRejected(e) ==
    /\ \E k \in pollers[e].inflight, error \in Errors :
          /\ toasts' = methodRejected(toasts, "getExecutionStatus", error)
          /\ pollers' = [pollers EXCEPT ![e] = pollRejected(@, k, now)]
    /\ failedCalls' = failedCalls + 1
    /\ UNCHANGED <<now, requests, observed, stopCalls, apiVars, uiVars, dashVars>>

\* A timer set by setTimeout(poll, interval) fires, at or after its due time.
TimerFires(e) ==
    /\ requests < MaxRequests
    /\ \E i \in 1 .. Len(pollers[e].timers) :
          /\ pollers[e].timers[i] <= now
          /\ pollers' = [pollers EXCEPT ![e] =
                            poll([@ EXCEPT !.timers = RemoveAt(@, i)], now)]
    /\ requests' = requests + 1
    /\ UNCHANGED <<now, failedCalls, toasts, observed, stopCalls, apiVars, uiVars, dashVars>>

\* Variant: the timeout id is one field of the ApiClient instance, and stop
\* clears it.
StopPollingSharedTimer(e) ==
    /\ pollers[e].started
    /\ stopCalls[e] < MaxStops
    /\ pollers' = [f \in ExecutionIds |-> [pollers[f] EXCEPT !.timers = <<>>]]
    /\ stopCalls' = [stopCalls EXCEPT ![e] = @ + 1]
    /\ UNCHANGED <<now, netVars, observed, apiVars, uiVars, dashVars>>

\* The caller invokes the stop function it was given.
StopPolling(e) ==
    /\ pollers[e].started
    /\ stopCalls[e] < MaxStops
    /\ pollers' = [pollers EXCEPT ![e] = stop(@)]
    /\ stopCalls' = [stopCalls EXCEPT ![e] = @ + 1]
    /\ UNCHANGED <<now, netVars, observed, apiVars, uiVars, dashVars>>

PollNext ==
    \/ Tick
    \/ \E e \in ExecutionIds : StartPolling(e)
    \/ \E e \in ExecutionIds : StatusResolved(e)
    \/ \E e \in ExecutionIds : StatusRejected(e)
    \/ \E e \in ExecutionIds : TimerFires(e)
    \/ \E e \in ExecutionIds : StopPolling(e)

PollSpec == Init /\ [][PollNext]_vars

\* Two callers, each polling its own execution.
PairInit ==
    /\ now = 0
    /\ requests = 0
    /\ failedCalls = 0
    /\ toasts = NoToasts
    /\ observed = ExecutionIds
    /\ pollers = [e \in ExecutionIds |-> NoPoller]
    /\ stopCalls = [e \in ExecutionIds |-> 0]
    /\ calls = NoCalls
    /\ lastResult = NoResult
    /\ settling = {}
    /\ form = NoForm
    /\ page = NoHealth
    /\ dash = NoHealth
    /\ query = NoQuery
    /\ render = NoRender

\* The fetches one poller may issue, so that the two together stay within
\* MaxRequests.
MaxPolls == MaxRequests \div 2

PairNext ==
    \/ now < (MaxTicks \div 2) * TickMs /\ Tick
    \/ \E e \in ExecutionIds : StartPolling(e)
    \/ \E e \in ExecutionIds : StatusResolved(e)
    \/ \E e \in ExecutionIds : StatusRejected(e)
    \/ \E e \in ExecutionIds : pollers[e].issued < MaxPolls /\ TimerFires(e)
    \/ \E e \in ExecutionIds : stopCalls[e] = 0 /\ StopPolling(e)

PairSpec == PairInit /\ [][PairNext]_vars

\* Some code calls a resource method directly.
Call(method) ==
    /\ requests < MaxCalls
    /\ requests' = requests + 1
    /\ calls' = [calls EXCEPT ![method] = @ + 1]
    /\ UNCHANGED <<now, failedCalls, toasts, lastResult, settling, pollVars,
                   uiVars, dashVars>>

\* The request of a direct call of method gets a 2xx response.
CallResolved(method) ==
    /\ calls[method] > 0
    /\ calls' = [calls EXCEPT ![method] = @ - 1]
    /\ toasts' = methodResolved(toasts, method)
    /\ lastResult' = [method |-> method, outcome |-> "resolved",
                      error |-> "none"]
    /\ UNCHANGED <<now, requests, failedCalls, settling, pollVars, uiVars,
                   dashVars>>

\* The request of a direct call of method fails with some error.
CallRejected(method) ==
    /\ calls[method] > 0
    /\ calls' = [calls EXCEPT ![method] = @ - 1]
    /\ \E error \in Errors :
          /\ toasts' = methodRejected(toasts, method, error)
          /\ lastResult' = [method |-> method, outcome |-> "rejected",
                            error |-> error]
    /\ failedCalls' = failedCalls + 1
    /\ UNCHANGED <<now, requests, settling, pollVars, uiVars, dashVars>>

ApiNext ==
    \/ \E method \in Methods : Call(method)
    \/ \E method \in Methods : CallResolved(method)
    \/ \E method \in Methods : CallRejected(method)

ApiSpec == Init /\ [][ApiNext]_vars

\* The request of a direct call of a read method fails: the rejected branch
\* of the interceptor runs and returns Promise.reject(error).
ResponseRejected(method) ==
    /\ settling = {}
    /\ calls[method] > 0
    /\ calls' = [calls EXCEPT ![method] = @ - 1]
    /\ \E error \in Errors :
          /\ toasts' = interceptRejected(toasts, error)
          /\ settling' = {[method |-> method, error |-> error]}
    /\ failedCalls' = failedCalls + 1
    /\ UNCHANGED <<now, requests, lastResult, pollVars, uiVars, dashVars>>

\* The promise reactions that follow: the await of the method throws and the
\* caller's promise settles.
RejectionDelivered ==
    /\ \E s \in settling : lastResult' = awaitRejected(s.method, s.error)
    /\ settling' = {}
    /\ UNCHANGED <<now, netVars, calls, pollVars, uiVars, dashVars>>

\* Direct calls of the read methods, with the interceptor and the caller's
\* continuation as the two promise reactions they are; no other handler
\* runs between the two.
PropagateNext ==
    \/ \E method \in ReadMethods : settling = {} /\ Call(method)
    \/ \E method \in ReadMethods : settling = {} /\ CallResolved(method)
    \/ \E method \in ReadMethods : ResponseRejected(method)
    \/ RejectionDelivered

PropagateSpec == Init /\ [][PropagateNext]_vars

\* The user submits the form (the submit button is disabled while
\* isSubmitting).
FormSubmit ==
    /\ ~form.isSubmitting
    /\ requests < MaxRequests
    /\ requests' = requests + 1
    /\ form' = onFormSubmit([form EXCEPT !.filled = TRUE])
    /\ UNCHANGED <<now, failedCalls, toasts, page, dash, pollVars, apiVars, dashVars>>

FormCreateResolved ==
    /\ form.inflight > 0
    /\ toasts' = methodResolved(toasts, "createExecution")
    /\ form' = formResolved(form)
    /\ UNCHANGED <<now, requests, failedCalls, page, dash, pollVars, apiVars, dashVars>>

FormCreateRejected ==
    /\ form.inflight > 0
    /\ \E error \in Errors :
          toasts' = methodRejected(toasts, "createExecution", error)
    /\ form' = formRejected(form)
    /\ failedCalls' = failedCalls + 1
    /\ UNCHANGED <<now, requests, page, dash, pollVars, apiVars, dashVars>>

\* The user clicks Cancel.
FormCancel ==
    /\ form.resets < MaxCancels + form.caught + requests
    /\ form.onSubmitCalls < MaxCancels + requests
    /\ form' = formCancel(form)
    /\ UNCHANGED <<now, netVars, page, dash, pollVars, apiVars, dashVars>>

FormNext ==
    \/ FormSubmit
    \/ FormCreateResolved
    \/ FormCreateRejected
    \/ FormCancel

FormSpec == Init /\ [][FormNext]_vars

\* Home mounts: its effect runs.
HomeMount ==
    /\ ~page.mounted
    /\ requests < MaxRequests
    /\ requests' = requests + 1
    /\ page' = homeEffect(page, now)
    /\ UNCHANGED <<now, failedCalls, toasts, form, dash, pollVars, apiVars, dashVars>>

HomeHealthResolved ==
    /\ \E k \in page.inflight, status \in HealthStatuses :
          /\ withinTimeout(page, k, now)
          /\ page' = healthResolved(page, k, status)
    /\ toasts' = methodResolved(toasts, "getHealth")
    /\ UNCHANGED <<now, requests, failedCalls, form, dash, pollVars, apiVars, dashVars>>

HomeHealthRejected ==
    /\ \E k \in page.inflight, error \in Errors :
          /\ toasts' = methodRejected(toasts, "getHealth", error)
          /\ page' = healthRejected(page, k)
    /\ failedCalls' = failedCalls + 1
    /\ UNCHANGED <<now, requests, form, dash, pollVars, apiVars, dashVars>>

\* Dashboard mounts: its effect runs.
DashboardMount ==
    /\ ~dash.mounted
    /\ requests < MaxRequests
    /\ requests' = requests + 1
    /\ dash' = dashboardEffect(dash, now)
    /\ UNCHANGED <<now, failedCalls, toasts, form, page, pollVars, apiVars, dashVars>>

DashboardHealthResolved ==
    /\ \E k \in dash.inflight, status \in HealthStatuses :
          /\ withinTimeout(dash, k, now)
          /\ dash' = healthResolved(dash, k, status)
    /\ toasts' = methodResolved(toasts, "getHealth")
    /\ UNCHANGED <<now, requests, failedCalls, form, page, pollVars, apiVars, dashVars>>

DashboardHealthRejected ==
    /\ \E k \in dash.inflight, error \in Errors :
          /\ toasts' = methodRejected(toasts, "getHealth", error)
          /\ dash' = healthRejected(dash, k)
    /\ failedCalls' = failedCalls + 1
    /\ UNCHANGED <<now, requests, form, page, pollVars, apiVars, dashVars>>

\* The components of the console that consume transport results, without
\* the clock.
NotifyNext ==
    \/ \E e \in ExecutionIds : StartPolling(e)
    \/ \E e \in ExecutionIds : StatusResolved(e)
    \/ \E e \in ExecutionIds : StatusRejected(e)
    \/ FormSubmit
    \/ FormCreateResolved
    \/ FormCreateRejected
    \/ HomeMount
    \/ HomeHealthResolved
    \/ HomeHealthRejected
    \/ DashboardMount
    \/ DashboardHealthResolved
    \/ DashboardHealthRejected

NotifySpec == Init /\ [][NotifyNext]_vars

\* Time passes, on the scale of the health interval.
HealthTick ==
    /\ now + HealthTickMs <= MaxHealthTicks * HealthTickMs
    /\ now' = now + HealthTickMs
    /\ UNCHANGED <<netVars, pollVars, apiVars, uiVars, dashVars>>

\* The interval of Home's effect fires, at or after its due time.
HomeIntervalFires ==
    /\ page.timer
    /\ page.due <= now
    /\ requests < MaxRequests
    /\ requests' = requests + 1
    /\ \E next \in NextRuns(page.due, now) :
          page' = intervalFires(page, now, next)
    /\ UNCHANGED <<now, failedCalls, toasts, form, dash, pollVars, apiVars,
                   dashVars>>

\* Home's effect is cleaned up (unmount).
HomeCleanup ==
    /\ page.mounted
    /\ ~page.cleaned
    /\ page' = homeCleanup(page)
    /\ UNCHANGED <<now, netVars, form, dash, pollVars, apiVars, dashVars>>

HealthNext ==
    \/ HealthTick
    \/ HomeMount
    \/ HomeIntervalFires
    \/ HomeHealthResolved
    \/ HomeHealthRejected
    \/ HomeCleanup

HealthSpec == Init /\ [][HealthNext]_vars

\* The event loop runs a timer that is due, and time does not stand still.
HealthFairSpec ==
    HealthSpec /\ WF_vars(HealthTick) /\ WF_vars(HomeIntervalFires)

\* Dashboard mounts: the 'recent-executions' query starts.
QueryMount ==
    /\ ~query.mounted
    /\ requests < MaxRequests
    /\ query' = queryMount(query, now)
    /\ requests' = requests + 1
    /\ UNCHANGED <<now, failedCalls, toasts, pollVars, apiVars, uiVars,
                   render>>

\* The list request of the query succeeds.
QueryResolved ==
    /\ query.inflight
    /\ \E executions \in QueryResults :
          query' = queryResolved(query, executions)
    /\ toasts' = methodResolved(toasts, "getExecutions")
    /\ UNCHANGED <<now, requests, failedCalls, pollVars, apiVars, uiVars,
                   render>>

\* The list request of the query fails.
QueryRejected ==
    /\ query.inflight
    /\ \E error \in Errors :
          toasts' = methodRejected(toasts, "getExecutions", error)
    /\ query' = queryRejected(query, now)
    /\ failedCalls' = failedCalls + 1
    /\ UNCHANGED <<now, requests, pollVars, apiVars, uiVars, render>>

\* The retry timer of the query fires, at or after its due time.
QueryRetryFires ==
    /\ query.retryDue >= 0
    /\ query.retryDue <= now
    /\ requests < MaxRequests
    /\ query' = queryRetryFires(query)
    /\ requests' = requests + 1
    /\ UNCHANGED <<now, failedCalls, toasts, pollVars, apiVars, uiVars,
                   render>>

\* The refetch interval of the query fires, at or after its due time.
QueryIntervalFires ==
    /\ query.mounted
    /\ query.due <= now
    /\ query.fetching \/ requests < MaxRequests
    /\ query' = queryIntervalFires(query, now)
    /\ requests' = IF query.fetching THEN requests ELSE requests + 1
    /\ UNCHANGED <<now, failedCalls, toasts, pollVars, apiVars, uiVars,
                   render>>

QueryNext ==
    \/ HealthTick
    \/ QueryMount
    \/ QueryResolved
    \/ QueryRejected
    \/ QueryRetryFires
    \/ QueryIntervalFires

QuerySpec == Init /\ [][QueryNext]_vars

\* A render of Dashboard with some executionsData: undefined, or a list of
\* up to MaxExecutions records.
AggInit ==
    /\ now = 0
    /\ requests = 0
    /\ failedCalls = 0
    /\ toasts = NoToasts
    /\ observed = {"e1"}
    /\ pollers = [e \in ExecutionIds |-> NoPoller]
    /\ stopCalls = [e \in ExecutionIds |-> 0]
    /\ calls = NoCalls
    /\ lastResult = NoResult
    /\ settling = {}
    /\ form = NoForm
    /\ page = NoHealth
    /\ dash = NoHealth
    /\ query = NoQuery
    /\ \E data \in {NoData}
                     \cup [loaded : {TRUE}, executions : ExecutionLists] :
          render = startRender(data)

\* The reduce visits the next record.
ReduceStep ==
    /\ ~render.done
    /\ render.executionsData.loaded
    /\ render.pos < Len(render.executions)
    /\ render' = reduceStep(render)
    /\ UNCHANGED <<now, netVars, pollVars, apiVars, uiVars, query>>

\* The reduce has visited every record (or there was no list): stats is set.
RenderDone ==
    /\ ~render.done
    /\ render.executionsData.loaded => render.pos = Len(render.executions)
    /\ render' = finishRender(render)
    /\ UNCHANGED <<now, netVars, pollVars, apiVars, uiVars, query>>

AggNext ==
    \/ ReduceStep
    \/ RenderDone

AggSpec == AggInit /\ [][AggNext]_vars

----------------------------------------------------------------------------
(* Status Poller properties *)

SawStatus(p, statuses) ==
    \E i \in 1 .. Len(p.delivered) : p.delivered[i].status \in statuses

\* The step delivers one more snapshot of poller e to the sink.
Delivers(e) == Len(pollers'[e].delivered) = Len(pollers[e].delivered) + 1

Newest(p) == p.delivered[Len(p.delivered)]

\* C1: once a status fetch has completed with completed, failed or cancelled,
\* the poller issues no further fetch and holds no timer; a fetch that
\* completes with one of these three schedules nothing, and a fetch that
\* completes with any other status (pending, running) schedules the next
\* poll.
C1_TerminalStopsPolling ==
    [][\A e \in ExecutionIds :
        /\ SawStatus(pollers[e], {"completed", "failed", "cancelled"})
              => /\ pollers'[e].issued = pollers[e].issued
                 /\ pollers'[e].timers = <<>>
        /\ (Delivers(e)
              /\ Newest(pollers'[e]).status \in {"completed", "failed", "cancelled"})
              => pollers'[e].timers = <<>>
        /\ (Delivers(e)
              /\ Newest(pollers'[e]).status
                    \notin {"completed", "failed", "cancelled"})
              => Len(pollers'[e].timers) = Len(pollers[e].timers) + 1]_vars

\* Polling ran for at least two fetches, ended on a terminal status, and time
\* has passed beyond the moment another poll would have been due, with
\* requests still allowed.
C1_Witness ==
    \E e \in ExecutionIds :
        /\ SawStatus(pollers[e], {"completed", "failed", "cancelled"})
        /\ pollers[e].issued >= 2
        /\ requests < MaxRequests
        /\ now >= pollers[e].issuedAt + pollers[e].interval

\* C2: a status fetch that fails while no terminal status has been seen and
\* the stop function has not been called schedules the next poll after the
\* interval, as a non-terminal status does.
C2_FailureKeepsPolling ==
    [][\A e \in ExecutionIds :
        (/\ pollers'[e].rejected = pollers[e].rejected + 1
         /\ ~SawStatus(pollers[e], {"completed", "failed", "cancelled"})
         /\ stopCalls[e] = 0)
            => pollers'[e].timers = <<now + pollers[e].interval>>]_vars

\* C3: after the stop function has been called, the poller issues no fetch
\* and holds no pending timer.
C3_StopIsEffective ==
    [][\A e \in ExecutionIds :
        stopCalls[e] > 0
            => /\ pollers'[e].issued = pollers[e].issued
               /\ pollers'[e].timers = <<>>]_vars

\* C4: a poller has at most one unresolved status fetch at any moment, and it
\* issues a fetch only when none is unresolved.
C4_NoOverlap ==
    [][\A e \in ExecutionIds :
        /\ Cardinality(pollers'[e].inflight) <= 1
        /\ pollers'[e].issued > pollers[e].issued
              => pollers[e].inflight = {}]_vars

\* A fetch issued by a timer is still unanswered two intervals after it was
\* issued.
C4_Witness ==
    \E e \in ExecutionIds :
        /\ pollers[e].issued >= 2
        /\ pollers[e].inflight # {}
        /\ now >= pollers[e].issuedAt + 2 * pollers[e].interval

\* C5: while every response is a success, the sink has been called once per
\* answered fetch, in fetch order; once the terminal response has arrived
\* the number of fetches equals the number of sink calls, only the last
\* delivered status is terminal, and nothing is scheduled or in flight.
C5_DeliveryCount ==
    \A e \in ExecutionIds :
        LET p == pollers[e]
            n == Len(p.delivered)
        IN  p.rejected = 0 =>
              /\ n + Cardinality(p.inflight) = p.issued
              /\ \A i \in 1 .. n : p.delivered[i].fetch = i
              /\ SawStatus(p, {"completed", "failed", "cancelled"})
                    => /\ p.issued = n
                       /\ \A i \in 1 .. n :
                             (p.delivered[i].status
                                 \in {"completed", "failed", "cancelled"})
                                 <=> i = n
                       /\ p.timers = <<>>
                       /\ p.inflight = {}

\* The scripted run running, running, completed.
C5_Witness ==
    \E e \in ExecutionIds :
        /\ pollers[e].rejected = 0
        /\ pollers[e].issued = 3
        /\ pollers[e].delivered =
              <<[fetch |-> 1, status |-> "running"],
                [fetch |-> 2, status |-> "running"],
                [fetch |-> 3, status |-> "completed"]>>

\* C6: starting a poller issues its first fetch in the same step, with no
\* timer; every fetch that completes with a non-terminal status (pending,
\* running) sets exactly one timer, due one interval after the completion;
\* every later fetch is issued by such a timer, at or after its due time.
C6_StartAndCadence ==
    [][\A e \in ExecutionIds :
        /\ (~pollers[e].started /\ pollers'[e].started)
              => /\ pollers'[e].issued = 1
                 /\ pollers'[e].inflight = {1}
                 /\ pollers'[e].issuedAt = now
                 /\ pollers'[e].timers = <<>>
                 /\ now' = now
        /\ (Delivers(e)
              /\ Newest(pollers'[e]).status
                    \notin {"completed", "failed", "cancelled"})
              => pollers'[e].timers = <<now + pollers[e].interval>>
        /\ (pollers[e].started /\ pollers'[e].issued > pollers[e].issued)
              => /\ pollers'[e].issued = pollers[e].issued + 1
                 /\ \E i \in 1 .. Len(pollers[e].timers) :
                       pollers[e].timers[i] <= now
                 /\ Len(pollers'[e].timers) = Len(pollers[e].timers) - 1]_vars

\* With the default interval of 2000 ms, the first fetch was answered
\* "running" some time after the start and has set the timer 2000 ms ahead.
C6_Witness ==
    \E e \in ExecutionIds :
        /\ now > 0
        /\ pollers[e].interval = 2000
        /\ pollers[e].issued = 1
        /\ Len(pollers[e].delivered) = 1
        /\ pollers[e].delivered[1].status = "running"
        /\ pollers[e].timers = <<now + 2000>>

\* C7: no call of the stop function throws, and a second or later call
\* leaves the poller as it found it.
C7_StopIdempotent ==
    [][\A e \in ExecutionIds :
        stopCalls'[e] = stopCalls[e] + 1
            => /\ ~pollers'[e].threw
               /\ stopCalls[e] >= 1 => pollers'[e] = pollers[e]]_vars

\* The stop function has been called at least twice and a timer is pending.
C7_Witness ==
    \E e \in ExecutionIds :
        /\ stopCalls[e] >= 2
        /\ pollers[e].timers # <<>>
        /\ ~pollers[e].threw

----------------------------------------------------------------------------
(* Transport Adapter and Resource Client properties *)

\* C8: every failed backend call has produced exactly one error
\* notification: the number of error toasts equals the number of failed
\* calls, whichever component (status poller, Home's and Dashboard's health
\* fetch, the form's submit) consumed the failure.
C8_OneNotificationPerFailure ==
    /\ toasts.errors = failedCalls
    /\ failedCalls =
          pollers["e1"].rejected + pollers["e2"].rejected + form.caught
              + page.caught + dash.caught

\* Each of the four consumers has caught one failure.
C8_Witness ==
    /\ \E e \in ExecutionIds : pollers[e].rejected = 1
    /\ form.caught = 1
    /\ page.caught = 1
    /\ dash.caught = 1
    /\ toasts.errors = 4

C9_Class(error) ==
    IF ~error.response THEN "RequestFailed"
    ELSE CASE error.status = 401 -> "AuthRequired"
           [] error.status = 403 -> "Forbidden"
           [] error.status = 404 -> "NotFound"
           [] error.status >= 500 -> "ServerError"
           [] OTHER -> "RequestFailed"

\* C9: the error notification of a failed call carries exactly the class its
\* response status selects: 401 AuthRequired, 403 Forbidden, 404 NotFound,
\* 500 or more ServerError, anything else (no response included)
\* RequestFailed.
C9_ClassificationByStatus ==
    lastResult.outcome = "rejected"
        => /\ toasts.lastClass = C9_Class(lastResult.error)
           /\ toasts.lastClass
                 \in {"AuthRequired", "Forbidden", "NotFound", "ServerError",
                      "RequestFailed"}
           /\ toasts.errors = failedCalls

\* The second failed call failed without any response and was classified
\* RequestFailed.
C9_Witness ==
    /\ lastResult.outcome = "rejected"
    /\ ~lastResult.error.response
    /\ toasts.lastClass = "RequestFailed"
    /\ toasts.errors = 2

\* C10: a settled createExecution, deleteExecution, restoreCheckpoint or
\* updateConfig call adds exactly one success notification when it succeeded
\* and none when it failed; a settled call of any other method, and the
\* issue of any call, add none.
C10_SuccessNotifications ==
    [][/\ \A method \in Methods :
            calls'[method] < calls[method]
                => toasts'.successes =
                      toasts.successes
                          + (IF /\ failedCalls' = failedCalls
                                /\ method \in {"createExecution", "deleteExecution",
                                               "restoreCheckpoint", "updateConfig"}
                             THEN 1 ELSE 0)
       /\ (\A method \in Methods : calls'[method] >= calls[method])
            => toasts'.successes = toasts.successes]_vars

\* One call has succeeded with a success notification and a createExecution
\* call has then failed, leaving that count at one.
C10_Witness ==
    /\ toasts.successes = 1
    /\ failedCalls = 1
    /\ lastResult.method = "createExecution"
    /\ lastResult.outcome = "rejected"

----------------------------------------------------------------------------
(* Aggregator properties *)

CountOf(executions, statuses) ==
    Cardinality({i \in 1 .. Len(executions) : executions[i].status \in statuses})

\* C11: the computed totalExecutions is the length of the list, and for the
\* empty list, and when there is no list, totalExecutions, activeExecutions,
\* completedExecutions and failedExecutions are all zero.
C11_TotalIsLength ==
    render.done =>
        /\ render.executionsData.loaded
              => render.stats.totalExecutions
                    = Len(render.executionsData.executions)
        /\ (~render.executionsData.loaded
              \/ render.executionsData.executions = <<>>)
              => /\ render.stats.totalExecutions = 0
                 /\ render.stats.activeExecutions = 0
                 /\ render.stats.completedExecutions = 0
                 /\ render.stats.failedExecutions = 0

\* The stats of a list of MaxExecutions records, none of them counted by a
\* status counter, have been computed.
C11_Witness ==
    /\ render.done
    /\ render.executionsData.loaded
    /\ Len(render.executionsData.executions) = MaxExecutions
    /\ CountOf(render.executionsData.executions, {"pending", "cancelled"})
          = MaxExecutions
    /\ render.stats.totalExecutions = MaxExecutions

StatusSum(stats) ==
    stats.activeExecutions + stats.completedExecutions + stats.failedExecutions

\* C12 as stated: active + completed + failed is at most the total, and
\* equals it exactly when no record has status pending or cancelled.
C12_EqualIffNoPendingOrCancelled ==
    (render.done /\ render.executionsData.loaded) =>
        /\ StatusSum(render.stats) <= render.stats.totalExecutions
        /\ StatusSum(render.stats) = render.stats.totalExecutions
              <=> CountOf(render.executionsData.executions,
                          {"pending", "cancelled"}) = 0

\* C12, amended: active + completed + failed is at most the total, and
\* equals it exactly when every record has status running, completed or
\* failed; a record with any other status string (pending, cancelled, or one
\* outside the five) counts toward the total only.
C12_EqualIffAllCounted ==
    (render.done /\ render.executionsData.loaded) =>
        /\ StatusSum(render.stats) <= render.stats.totalExecutions
        /\ StatusSum(render.stats) = render.stats.totalExecutions
              <=> CountOf(render.executionsData.executions,
                          {"running", "completed", "failed"})
                     = Len(render.executionsData.executions)

\* A list with a record whose status is none of the five, and none pending
\* or cancelled: the sum is below the total.
C12_Witness ==
    /\ render.done
    /\ render.executionsData.loaded
    /\ CountOf(render.executionsData.executions, {"pending", "cancelled"}) = 0
    /\ CountOf(render.executionsData.executions, {"paused"}) = 1
    /\ CountOf(render.executionsData.executions, {"running"}) >= 1
    /\ StatusSum(render.stats) < render.stats.totalExecutions

----------------------------------------------------------------------------
(* Health Monitor properties *)

\* C13: a failed health refresh leaves Home's health snapshot as it was (a
\* previous snapshot, or none); the snapshot changes only in a step in which
\* a refresh succeeds, and then to the whole answer of that refresh.
C13_FailureKeepsSnapshot ==
    [][/\ page'.caught # page.caught => page'.health = page.health
       /\ page'.health # page.health
            => /\ page'.caught = page.caught
               /\ \E k \in page.inflight \ page'.inflight,
                     status \in HealthStatuses :
                     page'.health = [fetch |-> k, status |-> status]]_vars

\* The first refresh stored a snapshot, the second failed, and the snapshot
\* of the first is still held.
C13_Witness ==
    /\ page.issued = 2
    /\ page.inflight = {}
    /\ page.caught = 1
    /\ page.health.fetch = 1

\* C14: activating the monitor issues one health fetch in the same step and
\* sets the interval 30000 ms ahead; every later fetch is issued by the
\* interval firing at or after its due time, one fetch per firing, with the
\* next firing due within the 30000 ms that follow; the interval stays set
\* while the monitor is active.
C14_HealthStartAndCadence ==
    [][/\ (~page.mounted /\ page'.mounted)
            => /\ page'.issued = 1
               /\ page'.inflight = {1}
               /\ now' = now
               /\ page'.timer
               /\ page'.due = now + 30000
       /\ (page.mounted /\ page'.issued # page.issued)
            => /\ page'.issued = page.issued + 1
               /\ page.timer
               /\ page.due <= now
               /\ now < page'.due
               /\ page'.due <= now + 30000
       /\ (page'.mounted /\ ~page'.cleaned) => page'.timer]_vars

\* The monitor was activated at 0, its interval has fired at 30000 ms and at
\* 60000 ms: three fetches, the next due at 90000 ms.
C14_Witness ==
    /\ page.mounted
    /\ ~page.cleaned
    /\ page.issued = 3
    /\ now >= 60000
    /\ page.due >= 90000

\* The model's horizon: no request is left, or the clock has reached its
\* last tick before the interval is due.
C15_Horizon ==
    \/ requests = MaxRequests
    \/ /\ now + HealthTickMs > MaxHealthTicks * HealthTickMs
       /\ now < page.due

\* C15: a failed refresh neither clears nor moves the interval; while the
\* monitor has not been stopped the interval is set and, once due, can
\* fire; and after any number of failed refreshes another refresh is
\* eventually issued, unless the monitor is stopped first (or the model's
\* horizon is reached).
C15_FailuresDoNotStop ==
    /\ [][/\ (page'.caught # page.caught)
               => (page'.timer = page.timer /\ page'.due = page.due)
          /\ (page'.mounted /\ ~page'.cleaned) => page'.timer
          /\ (page.mounted /\ ~page.cleaned /\ page.due <= now
                 /\ requests < MaxRequests)
               => ENABLED HomeIntervalFires]_vars
    /\ \A i \in 1 .. MaxRequests, n \in 1 .. MaxRequests :
          (page.mounted /\ ~page.cleaned /\ page.issued = i /\ page.caught = n)
              ~> (page.issued > i \/ page.cleaned \/ C15_Horizon)

\* Two refreshes in a row have failed, no snapshot was ever stored, and a
\* third refresh has been issued.
C15_Witness ==
    /\ page.caught = 2
    /\ page.health = NoSnapshot
    /\ page.issued = 3
    /\ page.inflight = {3}
    /\ ~page.cleaned

\* C16: the cleanup clears the interval, and after it no health fetch is
\* issued and no interval is set.
C16_CleanupStopsFetches ==
    [][/\ (~page.cleaned /\ page'.cleaned) => ~page'.timer
       /\ page.cleaned
            => /\ page'.issued = page.issued
               /\ ~page'.timer]_vars

\* The cleanup ran while the first fetch was unanswered, and the time at
\* which the interval was due has passed with requests still allowed.
C16_Witness ==
    /\ page.cleaned
    /\ page.issued = 1
    /\ page.inflight = {1}
    /\ now >= page.due
    /\ requests < MaxRequests

----------------------------------------------------------------------------
(* QuickTaskForm properties *)

\* C17: a createExecution that fails during a submission is caught by the
\* submit handler, and that step resets no field, does not call onSubmit,
\* shows no success notification, and changes nothing of the form but
\* isSubmitting, which returns to false (and the request being settled).
C17_FailedCreateLeavesForm ==
    [][/\ failedCalls' # failedCalls => form'.caught = form.caught + 1
       /\ form'.caught # form.caught
            => /\ failedCalls' = failedCalls + 1
               /\ form'.filled = form.filled
               /\ form'.resets = form.resets
               /\ form'.onSubmitCalls = form.onSubmitCalls
               /\ toasts'.successes = toasts.successes
               /\ ~form'.isSubmitting
               /\ form' = [form EXCEPT !.isSubmitting = FALSE,
                                       !.inflight = @ - 1,
                                       !.caught = @ + 1]]_vars

\* A first submission has failed: the fields are still filled, nothing was
\* reset, onSubmit was not called, and the form can be submitted again.
C17_Witness ==
    /\ form.caught = 1
    /\ toasts.errors = 1
    /\ toasts.successes = 0
    /\ form.filled
    /\ form.resets = 0
    /\ form.onSubmitCalls = 0
    /\ ~form.isSubmitting

----------------------------------------------------------------------------
(* Dashboard query properties *)

\* C18: no request is re-sent automatically after a failure: every list
\* request of the dashboard is issued either when the query starts or by
\* its regular refresh, never earlier than the refresh is due.
C18_NoAutomaticRetry ==
    [][query'.issued # query.issued
         => \/ query.issued = 0
            \/ query.due <= now]_vars

----------------------------------------------------------------------------
(* Error propagation properties *)

\* C19: for every failed read operation the error notification is emitted
\* first (while nothing has reached the caller), and the next thing that
\* happens is that the caller gets a rejection carrying the same error, with
\* no further notification; a rejection never reaches the caller without
\* the notification before it, and a failure never becomes a result.
C19_NotifyThenReject ==
    [][/\ settling = {} /\ settling' # {}
            => /\ toasts'.errors = toasts.errors + 1
               /\ toasts'.successes = toasts.successes
               /\ \A s \in settling' :
                     /\ s.method \in ReadMethods
                     /\ toasts'.last = handleError(s.error).text
               /\ lastResult'.outcome = lastResult.outcome
               /\ lastResult'.method = lastResult.method
       /\ settling # {}
            => /\ settling' = {}
               /\ toasts' = toasts
               /\ \A s \in settling :
                     /\ lastResult'.outcome = "rejected"
                     /\ lastResult'.method = s.method
                     /\ lastResult'.error = s.error
       /\ settling = {} /\ settling' = {}
            => /\ failedCalls' = failedCalls
               /\ lastResult'.outcome = "rejected"
                    => /\ lastResult.outcome = "rejected"
                       /\ lastResult'.method = lastResult.method
                       /\ lastResult'.error = lastResult.error]_vars

\* A failed status read has been notified and then delivered to its caller
\* as a rejection with the error that was notified.
C19_Witness ==
    /\ settling = {}
    /\ failedCalls = 1
    /\ toasts.errors = 1
    /\ lastResult.outcome = "rejected"
    /\ lastResult.method = "getExecutionStatus"
    /\ toasts.last = handleError(lastResult.error).text

----------------------------------------------------------------------------
(* Poller independence *)

\* C20: two pollers started for different execution ids share no timer and
\* no state: a step of one poller (its start, a fetch that resolves with
\* any status or fails, its timer firing, its stop function) leaves the
\* other poller's fetches issued, fetches in flight, timers and delivered
\* snapshots as they were, and leaves enabled whatever answer the other
\* poller was waiting for.
C20_PollersIndependent ==
    [][\A e \in ExecutionIds : \A f \in ExecutionIds \ {e} :
          (pollers'[e] # pollers[e] \/ stopCalls'[e] # stopCalls[e])
            => /\ pollers'[f] = pollers[f]
               /\ stopCalls'[f] = stopCalls[f]
               /\ ENABLED StatusResolved(f) => pollers'[f].inflight # {}
               /\ pollers[f].timers # <<>> => pollers'[f].timers # <<>>]_vars

\* Poller e1 has been stopped and has ended on a failed fetch, while poller
\* e2 has gone on: it has delivered a non-terminal snapshot and issued its
\* second fetch.
C20_Witness ==
    /\ stopCalls["e1"] = 1
    /\ pollers["e1"].rejected = 1
    /\ pollers["e1"].timers = <<>>
    /\ pollers["e2"].issued = 2
    /\ Len(pollers["e2"].delivered) = 1
    /\ ~SawStatus(pollers["e2"], TerminalStatuses)
    /\ stopCalls["e2"] = 0

----------------------------------------------------------------------------
(* Aggregator: per-record and order properties *)

\* The counter the status of a record selects, "" when it selects none.
CounterOf(status) ==
    CASE status = "running" -> "activeExecutions"
      [] status = "completed" -> "completedExecutions"
      [] status = "failed" -> "failedExecutions"
      [] OTHER -> ""

StatusCounters == {"activeExecutions", "completedExecutions", "failedExecutions"}

\* C21: processing one record adds exactly 1 to totalExecutions, adds 1 to
\* the one counter its status selects (active for running, completed for
\* completed, failed for failed) and to no counter for any other status;
\* every other field of the accumulator keeps its value, no counter ever
\* decreases, and the list of records is left as it was.
C21_PerRecordStep ==
    [][/\ render'.pos # render.pos
            => LET execution == render.executions[render.pos + 1]
               IN  /\ render'.pos = render.pos + 1
                   /\ render'.acc.totalExecutions
                         = render.acc.totalExecutions + 1
                   /\ \A c \in StatusCounters :
                         render'.acc[c] = render.acc[c]
                            + (IF c = CounterOf(execution.status) THEN 1 ELSE 0)
                   /\ render'.acc.averageExecutionTime
                         = render.acc.averageExecutionTime
                   /\ render'.acc.totalTokensUsed = render.acc.totalTokensUsed
                   /\ render'.acc.totalCost = render.acc.totalCost
       /\ \A c \in StatusCounters \cup {"totalExecutions"} :
             render'.acc[c] >= render.acc[c] /\ render'.stats[c] >= render.stats[c]
       /\ render'.executions = render.executions
       /\ render'.executionsData = render.executionsData]_vars

\* Two records have been processed, a running one and then a cancelled one:
\* the total is 2 and only the active counter has moved.
C21_Witness ==
    /\ ~render.done
    /\ render.pos = 2
    /\ render.executions[1].status = "running"
    /\ render.executions[2].status = "cancelled"
    /\ render.acc.totalExecutions = 2
    /\ render.acc.activeExecutions = 1
    /\ render.acc.completedExecutions = 0
    /\ render.acc.failedExecutions = 0

\* The list executions in the order given by the permutation p of its indices.
Permuted(executions, p) == [i \in 1 .. Len(executions) |-> executions[p[i]]]

\* C22: the stats computed from a list are the stats the reduce gives for
\* every permutation of that list.
C22_OrderIndependent ==
    (render.done /\ render.executionsData.loaded) =>
        \A p \in Permutations(1 .. Len(render.executionsData.executions)) :
            render.stats
               = reduce(Permuted(render.executionsData.executions, p), ZeroStats)

\* The stats of a list of MaxExecutions records have been computed, whose
\* first two records are a failed one and a running one, so that some
\* permutation visits them in the other order.
C22_Witness ==
    /\ render.done
    /\ render.executionsData.loaded
    /\ Len(render.executionsData.executions) = MaxExecutions
    /\ render.executionsData.executions[1].status = "failed"
    /\ render.executionsData.executions[2].status = "running"
    /\ render.stats.activeExecutions >= 1
    /\ render.stats.failedExecutions >= 1

----------------------------------------------------------------------------
(* Health Monitor: order of responses and deactivation *)

\* C23: the stored health snapshot is only ever replaced by the response of
\* a fetch issued after the fetch whose response is stored.
C23_AppliedInIssueOrder ==
    [][page'.health # page.health
          => page'.health.fetch > page.health.fetch]_vars

\* C24: once Home's effect has been cleaned up, the stored health snapshot
\* is never written again, not even by the response of a fetch that was in
\* flight when the cleanup ran.
C24_NoUpdateAfterCleanup ==
    [][page.cleaned => page'.health = page.health]_vars

----------------------------------------------------------------------------
(* QuickTaskForm: the submit guard *)

\* C25: isSubmitting is true exactly while a createExecution request of the
\* form is unresolved; at most one such request is in flight; the step that
\* settles the request, with success or with failure, returns isSubmitting
\* to false; and on success reset() is called before onSubmit().
C25_SubmitGuard ==
    [][/\ form.isSubmitting <=> form.inflight = 1
       /\ form'.isSubmitting <=> form'.inflight = 1
       /\ form'.inflight \in {0, 1}
       /\ form'.inflight > form.inflight
            => (~form.isSubmitting /\ requests' = requests + 1)
       /\ form'.inflight < form.inflight => ~form'.isSubmitting
       /\ (form'.inflight < form.inflight /\ form'.caught = form.caught)
            => /\ form'.log = <<"reset", "onSubmit">>
               /\ form'.resets = form.resets + 1
               /\ form'.onSubmitCalls = form.onSubmitCalls + 1
               /\ toasts'.successes = toasts.successes + 1]_vars

\* A first submission failed and a second one succeeded: both have returned
\* isSubmitting to false, and the success has reset the form and then
\* called onSubmit.
C25_Witness ==
    /\ requests = 2
    /\ form.caught = 1
    /\ form.log = <<"reset", "onSubmit">>
    /\ form.resets = 1
    /\ form.onSubmitCalls = 1
    /\ form.inflight = 0
    /\ ~form.isSubmitting

====
